---- MODULE Spec2Model ----
(***************************************************************************)
(* Media Backup Tool (src/app.py): the GUI thread's handlers start_backup, *)
(* cancel_backup and reset_gui, the worker threads running run_backup and  *)
(* copy_media, and the helpers get_media_date and safe_copy.               *)
(*                                                                         *)
(* File names are sequences of one-character strings, so that endswith,    *)
(* lower and os.path.splitext are computed character by character.  Folder *)
(* paths are sequences of path components (strings).  A file path is the   *)
(* record [dir |-> folder path, name |-> file name].                       *)
(***************************************************************************)
EXTENDS Integers, Sequences, FiniteSets, TLC

\* Number of backup jobs (worker threads) one run of the program may start.
MaxJobs == 2

\* Number of safe_copy calls in the sequential safe_copy specification.
MaxCopies == 3

\* Number of times the program is constructed (load_config runs) in the
\* load_config specification.
MaxLoads == 2

-----------------------------------------------------------------------------
(* Strings *)

upper == <<"A","B","C","D","E","F","G","H","I","J","K","L","M","N","O","P","Q","R","S","T","U","V","W","X","Y","Z">>
lower == <<"a","b","c","d","e","f","g","h","i","j","k","l","m","n","o","p","q","r","s","t","u","v","w","x","y","z">>
digit == <<"0","1","2","3","4","5","6","7","8","9">>

\* str.lower() on one character
LowerChar(c) ==
    IF \E k \in 1..Len(upper) : upper[k] = c
    THEN lower[CHOOSE k \in 1..Len(upper) : upper[k] = c]
    ELSE c

\* str.lower()
Lower(s) == [k \in 1..Len(s) |-> LowerChar(s[k])]

\* str.endswith(suffix)
EndsWith(s, suffix) ==
    /\ Len(suffix) <= Len(s)
    /\ SubSeq(s, Len(s) - Len(suffix) + 1, Len(s)) = suffix

\* str.endswith(tuple of suffixes)
EndsWithAny(s, suffixes) == \E x \in suffixes : EndsWith(s, x)

\* str(n) for n >= 0, as characters
RECURSIVE DecChars(_)
DecChars(n) ==
    IF n < 10 THEN <<digit[n + 1]>>
    ELSE DecChars(n \div 10) \o <<digit[(n % 10) + 1]>>

\* the value of a decimal digit character; -1 for any other character
DigitVal(c) ==
    IF \E k \in 1..10 : digit[k] = c
    THEN (CHOOSE k \in 1..10 : digit[k] = c) - 1
    ELSE -1

\* a sequence of characters as one string
RECURSIVE StrOf(_)
StrOf(s) == IF s = <<>> THEN "" ELSE s[1] \o StrOf(Tail(s))

\* n as a zero-padded decimal string of at least `width` characters
RECURSIVE ZeroPad(_, _)
ZeroPad(s, width) == IF Len(s) >= width THEN s ELSE ZeroPad(<<"0">> \o s, width)

-----------------------------------------------------------------------------
(* Configuration *)

default_extensions ==
    << <<".","j","p","g">>,
       <<".","j","p","e","g">>,
       <<".","p","n","g">>,
       <<".","g","i","f">>,
       <<".","b","m","p">>,
       <<".","w","e","b","p">>,
       <<".","m","p","4">>,
       <<".","m","o","v">>,
       <<".","a","v","i">>,
       <<".","m","k","v">>,
       <<".","f","l","v">>,
       <<".","w","m","v">>,
       <<".","w","e","b","m">>,
       <<".","m","4","v">>,
       <<".","3","g","p">> >>

\* self.media_extensions, as loaded when no configuration file exists
media_extensions == {default_extensions[k] : k \in 1..Len(default_extensions)}

\* The configuration file backup_config.json, as load_config finds it:
\*   absent        os.path.exists is false
\*   unreadable    open raises
\*   garbage       json.load raises
\*   not_object    the JSON value is not an object: config.get raises
\*   no_key        an object without the key media_extensions
\*   not_iterable  the key holds a value tuple() rejects, such as null
\*   list          the key holds the list exts
\* writable tells whether open(config_file, 'w') succeeds.
ConfigKinds ==
    {"absent", "unreadable", "garbage", "not_object", "no_key", "not_iterable"}

ConfigLists ==
    { default_extensions,
      << <<".","j","p","g">> >>,
      << <<".","t","x","t">>, <<".","m","p","4">> >>,
      << <<".","J","P","G">> >>,
      << >> }

ConfigFiles ==
    [kind : ConfigKinds, exts : {<< >>}, writable : BOOLEAN]
        \cup [kind : {"list"}, exts : ConfigLists, writable : BOOLEAN]

ConfigAbsent == [kind |-> "absent", exts |-> << >>, writable |-> TRUE]

\* the file after json.dump({'media_extensions': list(default_extensions)})
ConfigDefault == [kind |-> "list", exts |-> default_extensions, writable |-> TRUE]

\* load_config: the tuple it returns and the configuration file it leaves
load_config(file) ==
    IF file.kind = "absent" THEN
        [result |-> default_extensions, file |-> file]
    ELSE IF file.kind \in {"unreadable", "garbage", "not_object", "not_iterable"} THEN
        [result |-> default_extensions,
         file |-> IF file.writable THEN ConfigDefault ELSE file]
    ELSE IF file.kind = "no_key" THEN
        [result |-> default_extensions, file |-> file]
    ELSE
        [result |-> file.exts, file |-> file]

\* the suffixes of a tuple, as str.endswith tries them
Suffixes(extensions) == {extensions[k] : k \in 1..Len(extensions)}

\* the image suffixes hard-coded in count_media_files and get_media_date
image_extensions ==
    { <<".","j","p","g">>,
      <<".","j","p","e","g">>,
      <<".","p","n","g">>,
      <<".","g","i","f">>,
      <<".","b","m","p">>,
      <<".","w","e","b","p">> }

-----------------------------------------------------------------------------
(* The environment: the source trees and the destinations the user can     *)
(* enter.  Time stamps count months since January 1970.                    *)

NoText == <<>>
ExifAbsent == [kind |-> "absent", text |-> NoText]
GoodDateTime == <<"2","0","2","4",":","0","3",":","1","5"," ","1","0",":","3","0",":","0","0">>
DashedDateTime == <<"2","0","2","4","-","0","3","-","1","5">>
Month13DateTime == <<"2","0","2","3",":","1","3",":","0","1"," ","0","0",":","0","0",":","0","0">>

Name_a_jpg == <<"a",".","j","p","g">>
Name_B_MP4 == <<"B",".","M","P","4">>
Name_notes_txt == <<"n","o","t","e","s",".","t","x","t">>
Name_c_png == <<"c",".","p","n","g">>
Name_d_mov == <<"d",".","m","o","v">>
Name_e_gif == <<"e",".","g","i","f">>
Name_dot_jpg == <<".","j","p","g">>
Name_a_1_jpg == <<"a","_","1",".","j","p","g">>

\* time stamps (months since January 1970) of December 2023 and January 2025
Mtime_2023_12 == [kind |-> "ok", t |-> (2023 - 1970) * 12 + 11]
Mtime_2025_01 == [kind |-> "ok", t |-> (2025 - 1970) * 12 + 0]

\* The values the user can leave in the source and destination entries:
\*   "S"  an existing tree with two media files and one text file: S/B.MP4
\*        cannot be read, S/x/a.jpg carries a capture date of March 2024
\*   "T"  an existing tree with three media files: T/c.png and T/y/e.gif
\*        were last modified in December 2023, T/y/d.mov has no readable
\*        date, and T/y/e.gif cannot be read
\*   "E"  an existing tree without media files
\*   "M"  a path that does not exist
\*   "D"  a destination that does not exist yet and can be created
\*   "Q"  an existing read-only destination: nothing can be created in it
\*   "X"  a destination that cannot be created
\*   ""   an empty entry
Sources == {"S", "T", "E", "M", ""}
Destinations == {"D", "Q", "X", ""}

\* os.path.exists(source)
SourceExists(source) == source \in {"S", "T", "E"}

\* os.walk(source_folder): the directories in walk order, each with its files
Walk(source) ==
    IF source = "S" THEN
        << [root_dir |-> <<"S">>, files |-> <<Name_B_MP4, Name_notes_txt>>],
           [root_dir |-> <<"S", "x">>, files |-> <<Name_a_jpg>>] >>
    ELSE IF source = "T" THEN
        << [root_dir |-> <<"T">>, files |-> <<Name_c_png>>],
           [root_dir |-> <<"T", "y">>, files |-> <<Name_d_mov, Name_e_gif>>] >>
    ELSE IF source = "E" THEN
        << [root_dir |-> <<"E">>, files |-> <<Name_notes_txt>>] >>
    ELSE << >>

\* What the file system and the imaging library answer for a source file:
\*   opens     Image.open succeeds
\*   exif      the embedded metadata: absent (no _getexif, or it returns None),
\*             corrupt (piexif.load raises), no_datetime (no DateTime tag in
\*             the 0th IFD), undecodable (the tag is not UTF-8), or text
\*   mtime     os.path.getmtime: unreadable (it raises) or a time stamp
\*   readable  shutil.copy2 can read the file
Stat(file_path) ==
    IF file_path = [dir |-> <<"S">>, name |-> Name_B_MP4] THEN
        [opens |-> FALSE, exif |-> ExifAbsent,
         mtime |-> Mtime_2023_12, readable |-> FALSE]
    ELSE IF file_path = [dir |-> <<"S", "x">>, name |-> Name_a_jpg] THEN
        [opens |-> TRUE, exif |-> [kind |-> "text", text |-> GoodDateTime],
         mtime |-> Mtime_2025_01, readable |-> TRUE]
    ELSE IF file_path = [dir |-> <<"T">>, name |-> Name_c_png] THEN
        [opens |-> TRUE, exif |-> ExifAbsent,
         mtime |-> Mtime_2023_12, readable |-> TRUE]
    ELSE IF file_path = [dir |-> <<"T", "y">>, name |-> Name_d_mov] THEN
        [opens |-> FALSE, exif |-> ExifAbsent,
         mtime |-> [kind |-> "unreadable", t |-> 0], readable |-> TRUE]
    ELSE IF file_path = [dir |-> <<"T", "y">>, name |-> Name_e_gif] THEN
        [opens |-> FALSE, exif |-> ExifAbsent,
         mtime |-> Mtime_2023_12, readable |-> FALSE]
    ELSE
        [opens |-> FALSE, exif |-> ExifAbsent,
         mtime |-> [kind |-> "unreadable", t |-> 0], readable |-> FALSE]

\* a directory that can be created: D and anything under it
Creatable(path) ==
    /\ Len(path) >= 1
    /\ path[1] = "D"

\* os.makedirs(path, exist_ok=True) succeeds, given the existing directories
MakedirsOk(dirs, path) == path \in dirs \/ Creatable(path)

\* the directories after a successful os.makedirs(path, exist_ok=True)
Makedirs(dirs, path) == dirs \cup {SubSeq(path, 1, k) : k \in 1..Len(path)}

-----------------------------------------------------------------------------
(* get_media_date *)

NoDate == [kind |-> "None", year |-> 0, month |-> 0]
Raised == [kind |-> "raised", year |-> 0, month |-> 0]
FallThrough == [kind |-> "fallthrough", year |-> 0, month |-> 0]
DateOf(y, m) == [kind |-> "date", year |-> y, month |-> m]

\* the two-digit number at positions k, k+1 of s; negative if not two digits
TwoDigits(s, k) ==
    IF DigitVal(s[k]) < 0 \/ DigitVal(s[k + 1]) < 0 THEN -1
    ELSE 10 * DigitVal(s[k]) + DigitVal(s[k + 1])

\* datetime.strptime(date_str, '%Y:%m:%d %H:%M:%S') on the fixed-width form
strptime(s) ==
    IF /\ Len(s) = 19
       /\ s[5] = ":" /\ s[8] = ":" /\ s[11] = " " /\ s[14] = ":" /\ s[17] = ":"
       /\ TwoDigits(s, 1) >= 0 /\ TwoDigits(s, 3) >= 0
       /\ TwoDigits(s, 6) \in 1..12
       /\ TwoDigits(s, 9) \in 1..31
       /\ TwoDigits(s, 12) \in 0..23
       /\ TwoDigits(s, 15) \in 0..59
       /\ TwoDigits(s, 18) \in 0..61
       /\ 100 * TwoDigits(s, 1) + TwoDigits(s, 3) >= 1
    THEN DateOf(100 * TwoDigits(s, 1) + TwoDigits(s, 3), TwoDigits(s, 6))
    ELSE Raised

\* datetime.fromtimestamp(mod_time): raises outside the years 1..9999
fromtimestamp(t) ==
    IF 1970 + (t \div 12) \in 1..9999
    THEN DateOf(1970 + (t \div 12), (t % 12) + 1)
    ELSE Raised

\* the body of the first try block: a date, FallThrough (the block ends
\* without returning) or Raised (an exception reaches the except clause)
ExifDate(file_path, st) ==
    IF EndsWithAny(Lower(file_path.name), image_extensions) THEN
        IF ~st.opens THEN Raised
        ELSE IF st.exif.kind = "absent" THEN FallThrough
        ELSE IF st.exif.kind = "corrupt" THEN Raised
        ELSE IF st.exif.kind = "no_datetime" THEN FallThrough
        ELSE IF st.exif.kind = "undecodable" THEN Raised
        ELSE strptime(st.exif.text)
    ELSE FallThrough

\* the second try block: the modification time, or None
MtimeDate(st) ==
    IF st.mtime.kind = "unreadable" THEN NoDate
    ELSE IF fromtimestamp(st.mtime.t).kind = "raised" THEN NoDate
    ELSE fromtimestamp(st.mtime.t)

\* get_media_date whose first except clause returns None instead of passing
\* on to the modification time
get_media_date_no_fallback(file_path, st) ==
    IF ExifDate(file_path, st).kind = "date" THEN ExifDate(file_path, st)
    ELSE IF ExifDate(file_path, st).kind = "raised" THEN NoDate
    ELSE MtimeDate(st)

get_media_date(file_path, st) ==
    IF ExifDate(file_path, st).kind = "date"
    THEN ExifDate(file_path, st)
    ELSE MtimeDate(st)

-----------------------------------------------------------------------------
(* Destination folders *)

month_name ==
    << "January", "February", "March", "April", "May", "June", "July",
       "August", "September", "October", "November", "December" >>

\* media_date.strftime("%Y") where the C library pads the year to four digits
strftime_Y(d) == StrOf(ZeroPad(DecChars(d.year), 4))

\* media_date.strftime("%Y") where it does not (glibc): 999 gives "999"
strftime_Y_unpadded(d) == StrOf(DecChars(d.year))

\* media_date.strftime("%m_%B")
strftime_m_B(d) == StrOf(ZeroPad(DecChars(d.month), 2)) \o "_" \o month_name[d.month]

\* os.path.join(destination_folder, "Unknown_Date")
UnknownFolder(destination_folder) == <<destination_folder, "Unknown_Date">>

\* the folder a file of date media_date goes to
FolderPath(destination_folder, media_date) ==
    IF media_date.kind = "None" THEN UnknownFolder(destination_folder)
    ELSE <<destination_folder, strftime_Y(media_date), strftime_m_B(media_date)>>

\* the folders a file of date media_date can go to: which one depends on the
\* platform's strftime, and only for years below 1000
FolderPaths(destination_folder, media_date) ==
    IF media_date.kind = "None" THEN {UnknownFolder(destination_folder)}
    ELSE {FolderPath(destination_folder, media_date),
          <<destination_folder, strftime_Y_unpadded(media_date),
            strftime_m_B(media_date)>>}

-----------------------------------------------------------------------------
(* safe_copy *)

\* os.path.splitext on a file name: the extension starts at the last dot,
\* unless only dots precede it
splitext(name) ==
    LET dots == {k \in 1..Len(name) : name[k] = "."}
        dotIndex == IF dots = {} THEN 0
                    ELSE CHOOSE k \in dots : \A j \in dots : j <= k
    IN  IF dotIndex > 0 /\ \E k \in 1..(dotIndex - 1) : name[k] # "."
        THEN [base |-> SubSeq(name, 1, dotIndex - 1),
              ext |-> SubSeq(name, dotIndex, Len(name))]
        ELSE [base |-> name, ext |-> <<>>]

\* the while loop of safe_copy: the first of dst, base_1ext, base_2ext, ...
\* that does not exist; base and ext are those of the name first asked for
RECURSIVE NextFree(_, _, _, _, _, _)
NextFree(existing, dir, base, ext, new_name, counter) ==
    IF [dir |-> dir, name |-> new_name] \in existing
    THEN NextFree(existing, dir, base, ext,
                  base \o <<"_">> \o DecChars(counter) \o ext, counter + 1)
    ELSE [dir |-> dir, name |-> new_name]

\* safe_copy_target with the counter appended to the whole name, extension
\* included
safe_copy_target_after_ext(existing, dst) ==
    NextFree(existing, dst.dir, dst.name, <<>>, dst.name, 1)

\* safe_copy up to the call of shutil.copy2: the path it will write to.
\* `existing` is the set of paths for which os.path.exists holds.
safe_copy_target(existing, dst) ==
    NextFree(existing, dst.dir, splitext(dst.name).base, splitext(dst.name).ext,
             dst.name, 1)

-----------------------------------------------------------------------------
(* Enumeration and counting *)

\* IsMedia when the extension is not tested
IsMediaAnyFile(file) == TRUE

\* the test of lines 124 and 265
IsMedia(file) == EndsWithAny(Lower(file), media_extensions)
IsImage(file) == EndsWithAny(Lower(file), image_extensions)

\* the matching files of one directory of the walk, as paths, in order
MediaOf(entry) ==
    LET names == SelectSeq(entry.files, IsMedia)
    IN  [k \in 1..Len(names) |-> [dir |-> entry.root_dir, name |-> names[k]]]

\* count_media_files when self.media_extensions is extensions
count_media_files_for(extensions, source_folder) ==
    LET walk == Walk(source_folder)
        slots == {<<d, f>> \in (1..Len(walk)) \X (1..9) : f <= Len(walk[d].files)}
        media == {x \in slots :
                     EndsWithAny(Lower(walk[x[1]].files[x[2]]), extensions)}
        image_count == Cardinality({x \in media : IsImage(walk[x[1]].files[x[2]])})
        video_count == Cardinality({x \in media : ~IsImage(walk[x[1]].files[x[2]])})
    IN  [total |-> image_count + video_count,
         images |-> image_count,
         videos |-> video_count]

\* count_media_files
count_media_files(source_folder) ==
    LET walk == Walk(source_folder)
        slots == {<<d, f>> \in (1..Len(walk)) \X (1..9) : f <= Len(walk[d].files)}
        media == {x \in slots : IsMedia(walk[x[1]].files[x[2]])}
        image_count == Cardinality({x \in media : IsImage(walk[x[1]].files[x[2]])})
        video_count == Cardinality({x \in media : ~IsImage(walk[x[1]].files[x[2]])})
    IN  [total |-> image_count + video_count,
         images |-> image_count,
         videos |-> video_count]

-----------------------------------------------------------------------------
(* State *)

VARIABLES
    is_running,      \* self.is_running
    start_button,    \* state of the widgets: "normal" or "disabled"
    cancel_button,
    source_button,
    dest_button,
    status_var,      \* text of the status bar
    progress_bar,    \* [value, maximum] of the progress bar
    backup_thread,   \* self.backup_thread: 0 (None) or the id of a worker
    gui,             \* where the GUI thread is inside start_backup, and its locals
    after_queue,     \* number of reset_gui calls scheduled with root.after
    nthreads,        \* number of worker threads created so far
    thr,             \* the worker threads: position, locals of copy_media
    dest_dirs,       \* the directories that exist under the destinations
    dest_files,      \* the files in the destinations: path -> source path copied
    probe,           \* the last call of the sequential safe_copy / date checks
    config_file,     \* the configuration file on disk
    loaded           \* the runs of load_config so far, and the last one

vars == <<is_running, start_button, cancel_button, source_button, dest_button,
          status_var, progress_bar, backup_thread, gui, after_queue, nthreads,
          thr, dest_dirs, dest_files, probe, config_file, loaded>>

buttons == <<start_button, cancel_button, source_button, dest_button>>
filesystem == <<dest_dirs, dest_files>>
config == <<config_file, loaded>>

Threads == 1..MaxJobs

NoPath == [dir |-> <<>>, name |-> <<>>]
NoNote == [kind |-> "none", count |-> 0]
NoCounts == [total |-> 0, images |-> 0, videos |-> 0]
GuiIdle == [pc |-> "idle", dialog |-> "", source |-> "", destination |-> "",
            media_counts |-> NoCounts]
\* probe: the calls made so far by the sequential specification FnSpec
\*   op       the function called last: "safe_copy", "get_media_date" or "none"
\*   input    the path passed to it, st what the file system answers for it
\*   before   the paths that existed when safe_copy was called
\*   result   the path safe_copy returned
\*   date     the value get_media_date returned, folder the folder planned
\*   initial  the paths that existed before the first call
\*   returned the names safe_copy returned, in call order
NoProbe == [op |-> "none", input |-> NoPath, st |-> Stat(NoPath), before |-> {},
            result |-> NoPath, date |-> NoDate, folder |-> <<>>,
            initial |-> {}, asked |-> <<>>, returned |-> <<>>]

\* A thread that has not been created.  pc is the position of the worker:
\*   walk     in the os.walk loop of copy_media
\*   prep     after the walk, before the copy loop
\*   loop     at the head of an iteration of the copy loop
\*   copy     inside safe_copy, before shutil.copy2
\*   summary  after the copy loop
\*   finally  in the finally clause of run_backup
\*   done     ended
\* copied, skipped, cancelled and answer record what happened (they are
\* written, never read, by the actions): the number of successful copy2 calls,
\* the indices of the files whose iteration raised, whether cancel_backup
\* cancelled this job after its enumeration, and the answer to the
\* confirmation that created the thread.  So do
\*   made       the folders for which this job's os.makedirs succeeded, in order
\*   elapsed    whether current_time - last_update >= 0.5 held when the loop
\*              last evaluated it
\*   published  the value the loop last wrote to the progress bar, 0 if none
\* of which the last two end with copy_media.
Unborn ==
    [pc |-> "unborn", source |-> "", destination |-> "", walk_idx |-> 1,
     media_to_copy |-> <<>>, total_media |-> 0, folder_cache |-> {}, i |-> 0,
     new_dst |-> NoPath, note |-> NoNote,
     copied |-> 0, skipped |-> {}, cancelled |-> FALSE, answer |-> FALSE,
     made |-> <<>>, elapsed |-> FALSE, published |-> 0]

Alive(w) == thr[w].pc \notin {"unborn", "done"}

InitGui ==
    /\ is_running = FALSE
    /\ start_button = "normal"
    /\ cancel_button = "disabled"
    /\ source_button = "normal"
    /\ dest_button = "normal"
    /\ status_var = "Ready"
    /\ progress_bar = [value |-> 0, maximum |-> 100]
    /\ backup_thread = 0
    /\ gui = GuiIdle
    /\ after_queue = 0
    /\ nthreads = 0
    /\ thr = [w \in Threads |-> Unborn]
    /\ dest_dirs = {<<"Q">>}

\* loaded: calls counts the runs of load_config, before is the file the last
\* run found and result the tuple it returned (self.media_extensions);
\* source and media_counts are those of the last count_media_files
NoLoad == [calls |-> 0, before |-> ConfigAbsent, result |-> << >>,
           source |-> "", media_counts |-> NoCounts]

\* the program was constructed where no configuration file exists
InitConfig ==
    /\ config_file = load_config(ConfigAbsent).file
    /\ loaded = [NoLoad EXCEPT !.calls = 1,
                                !.result = load_config(ConfigAbsent).result]

Init ==
    /\ InitGui
    /\ InitConfig
    /\ dest_files = << >>
    /\ probe = NoProbe

-----------------------------------------------------------------------------
(* The GUI thread *)

\* PreStartError without the check that the source exists
PreStartErrorNoSourceCheck(source, destination, dirs) ==
    IF source = "" \/ destination = ""
    THEN "Please select both source and destination folders"
    ELSE IF ~MakedirsOk(dirs, <<destination>>) THEN "Cannot create destination folder"
    ELSE ""

\* the error start_backup reports before it counts the files; "" if none
PreStartError(source, destination, dirs) ==
    IF source = "" \/ destination = ""
    THEN "Please select both source and destination folders"
    ELSE IF ~SourceExists(source) THEN "Source folder does not exist"
    ELSE IF ~MakedirsOk(dirs, <<destination>>) THEN "Cannot create destination folder"
    ELSE ""

\* start_backup up to the confirmation dialog.  The handler runs when the
\* start button is pressed, which a disabled button and an open modal dialog
\* prevent.  It ends in an error dialog, or it opens the confirmation dialog.
\* The button is pressed only while fewer than MaxJobs jobs have been started.
StartBackup ==
    /\ gui.pc = "idle"
    /\ start_button = "normal"
    /\ nthreads < MaxJobs
    /\ \E source \in Sources, destination \in Destinations :
        /\ IF PreStartError(source, destination, dest_dirs) # "" THEN
               /\ gui' = [GuiIdle EXCEPT !.pc = "error",
                             !.dialog = PreStartError(source, destination, dest_dirs)]
               /\ UNCHANGED dest_dirs
           ELSE
               /\ dest_dirs' = Makedirs(dest_dirs, <<destination>>)
               /\ gui' = [pc |-> "confirm", dialog |-> "Confirm Backup",
                          source |-> source, destination |-> destination,
                          media_counts |-> count_media_files(source)]
    /\ UNCHANGED <<is_running, buttons, status_var, progress_bar, backup_thread,
                   after_queue, nthreads, thr, dest_files, probe, config>>

\* the user closes the error dialog and start_backup returns
DismissError ==
    /\ gui.pc = "error"
    /\ gui' = GuiIdle
    /\ UNCHANGED <<is_running, buttons, status_var, progress_bar, backup_thread,
                   after_queue, nthreads, thr, filesystem, probe, config>>

\* Proceeds when the answer is ignored
ProceedsAlways(response) == TRUE

\* whether start_backup goes on after messagebox.askyesno returned response
Proceeds(response) == response

\* start_backup from the answer to the confirmation dialog to its end
ConfirmBackup ==
    /\ gui.pc = "confirm"
    /\ \E response \in BOOLEAN :
        IF ~Proceeds(response) THEN
            UNCHANGED <<is_running, buttons, backup_thread, nthreads, thr>>
        ELSE
            /\ is_running' = TRUE
            /\ start_button' = "disabled"
            /\ cancel_button' = "normal"
            /\ source_button' = "disabled"
            /\ dest_button' = "disabled"
            /\ nthreads' = nthreads + 1
            /\ backup_thread' = nthreads + 1
            /\ thr' = [thr EXCEPT ![nthreads + 1] =
                          [Unborn EXCEPT !.pc = "walk", !.source = gui.source,
                                         !.destination = gui.destination,
                                         !.answer = response]]
    /\ gui' = GuiIdle
    /\ UNCHANGED <<status_var, progress_bar, after_queue, filesystem, probe, config>>

\* cancel_backup
CancelBackup ==
    /\ gui.pc = "idle"
    /\ cancel_button = "normal"
    /\ IF is_running THEN
            /\ is_running' = FALSE
            /\ status_var' = "Cancelling backup..."
            /\ cancel_button' = "disabled"
            /\ start_button' = "normal"
            /\ source_button' = "normal"
            /\ dest_button' = "normal"
            /\ thr' = [w \in Threads |->
                          IF w = backup_thread /\ thr[w].pc \in {"prep", "loop", "copy"}
                          THEN [thr[w] EXCEPT !.cancelled = TRUE]
                          ELSE thr[w]]
       ELSE UNCHANGED <<is_running, status_var, buttons, thr>>
    /\ UNCHANGED <<progress_bar, backup_thread, gui, after_queue, nthreads,
                   filesystem, probe, config>>

\* reset_gui, run from the event loop for a root.after(0, ...) of a worker
ResetGui ==
    /\ after_queue > 0
    /\ after_queue' = after_queue - 1
    /\ start_button' = "normal"
    /\ cancel_button' = "disabled"
    /\ source_button' = "normal"
    /\ dest_button' = "normal"
    /\ status_var' = "Ready"
    /\ UNCHANGED <<is_running, progress_bar, backup_thread, gui, nthreads, thr,
                   filesystem, probe, config>>

-----------------------------------------------------------------------------
(* The worker threads: run_backup and copy_media *)

\* the os.walk loop of copy_media, one directory per step: is_running is
\* polled once per directory, before its files are appended
WalkStep(w) ==
    /\ thr[w].pc = "walk"
    /\ thr[w].walk_idx <= Len(Walk(thr[w].source))
    /\ LET t == thr[w]
           walk == Walk(t.source)
       IN  IF ~is_running THEN
               thr' = [thr EXCEPT ![w].pc = "prep"]
           ELSE
               thr' = [thr EXCEPT
                          ![w].media_to_copy = t.media_to_copy \o MediaOf(walk[t.walk_idx]),
                          ![w].walk_idx = t.walk_idx + 1,
                          ![w].pc = IF t.walk_idx = Len(walk) THEN "prep" ELSE "walk"]
    /\ UNCHANGED <<is_running, buttons, status_var, progress_bar, backup_thread,
                   gui, after_queue, nthreads, filesystem, probe, config>>

\* NothingFound without the message box: copy_media just returns
NothingFoundSilent(t) == [t EXCEPT !.pc = "finally"]

\* NothingFound without the return: copy_media goes on to the summary
NothingFoundGoesOn(t) == [t EXCEPT !.pc = "summary"]

\* copy_media returns after "No media files found!"
NothingFound(t) ==
    [t EXCEPT !.note = [kind |-> "empty", count |-> 0], !.pc = "finally"]

\* an exception leaves copy_media: the except clause of run_backup shows it
RunBackupExcept(t) ==
    [t EXCEPT !.note = [kind |-> "error", count |-> 0], !.pc = "finally"]

\* copy_media between the walk and the copy loop
Prepare(w) ==
    /\ thr[w].pc = "prep"
    /\ LET t == thr[w]
           unknown_folder == UnknownFolder(t.destination)
       IN  IF t.media_to_copy = <<>> THEN
               /\ thr' = [thr EXCEPT ![w] = NothingFound(t)]
               /\ UNCHANGED <<progress_bar, dest_dirs>>
           ELSE IF ~MakedirsOk(dest_dirs, unknown_folder) THEN
               /\ progress_bar' = [progress_bar EXCEPT !.maximum = Len(t.media_to_copy)]
               /\ thr' = [thr EXCEPT ![w] =
                             RunBackupExcept([t EXCEPT !.total_media = Len(t.media_to_copy)])]
               /\ UNCHANGED dest_dirs
           ELSE
               /\ progress_bar' = [progress_bar EXCEPT !.maximum = Len(t.media_to_copy)]
               /\ dest_dirs' = Makedirs(dest_dirs, unknown_folder)
               /\ thr' = [thr EXCEPT ![w].total_media = Len(t.media_to_copy),
                                     ![w].folder_cache = {unknown_folder},
                                     ![w].made = <<unknown_folder>>,
                                     ![w].i = 0,
                                     ![w].pc = "loop"]
    /\ UNCHANGED <<is_running, buttons, status_var, backup_thread, gui,
                   after_queue, nthreads, dest_files, probe, config>>

\* the end of one iteration of the copy loop: the next file, or the end
NextIteration(t) ==
    [t EXCEPT !.i = t.i + 1,
              !.new_dst = NoPath,
              !.pc = IF t.i + 1 = t.total_media THEN "summary" ELSE "loop"]

\* FileError without the try/except of the copy loop: the exception leaves
\* copy_media
FileErrorAborts(t) == RunBackupExcept(t)

\* the except clause of the copy loop: the error is logged, the loop goes on
FileError(t) == NextIteration([t EXCEPT !.skipped = t.skipped \cup {t.i}])

\* NeedsMakedirs when the cache is not consulted
NeedsMakedirsAlways(folder_cache, folder_path) == TRUE

\* whether the loop calls os.makedirs for folder_path
NeedsMakedirs(folder_cache, folder_path) == folder_path \notin folder_cache

\* an iteration of the copy loop up to the call of shutil.copy2: the date,
\* the folder, and the name safe_copy settles on
ResolveAndPlan(w) ==
    /\ thr[w].pc = "loop"
    /\ \E folder_path \in FolderPaths(thr[w].destination,
                 get_media_date(thr[w].media_to_copy[thr[w].i + 1],
                                Stat(thr[w].media_to_copy[thr[w].i + 1]))) :
       LET t == thr[w]
           file_path == t.media_to_copy[t.i + 1]
           needed == NeedsMakedirs(t.folder_cache, folder_path)
       IN  IF needed /\ ~MakedirsOk(dest_dirs, folder_path) THEN
               /\ thr' = [thr EXCEPT ![w] = FileError(t)]
               /\ UNCHANGED dest_dirs
           ELSE
               /\ dest_dirs' = IF needed THEN Makedirs(dest_dirs, folder_path)
                               ELSE dest_dirs
               /\ thr' = [thr EXCEPT
                             ![w].folder_cache = t.folder_cache \cup {folder_path},
                             ![w].made = IF needed THEN Append(t.made, folder_path)
                                         ELSE t.made,
                             ![w].new_dst = safe_copy_target(DOMAIN dest_files,
                                               [dir |-> folder_path, name |-> file_path.name]),
                             ![w].pc = "copy"]
    /\ UNCHANGED <<is_running, buttons, status_var, progress_bar, backup_thread,
                   gui, after_queue, nthreads, dest_files, probe, config>>

\* ShouldPublish when every copied file is reported
ShouldPublishAlways(elapsed, i, total_media) == TRUE

\* the condition of the progress update: half a second has passed since
\* last_update, or the file is the last one
ShouldPublish(elapsed, i, total_media) == elapsed \/ i = total_media - 1

\* shutil.copy2 and the progress update that ends the iteration.  The time
\* that passed since last_update is the environment's choice.
CopyFile(w) ==
    /\ thr[w].pc = "copy"
    /\ LET t == thr[w]
           file_path == t.media_to_copy[t.i + 1]
       IN  IF ~Stat(file_path).readable THEN
               /\ thr' = [thr EXCEPT ![w] = FileError(t)]
               /\ UNCHANGED <<dest_files, progress_bar>>
           ELSE
               /\ dest_files' = (t.new_dst :> file_path) @@ dest_files
               /\ \E elapsed \in BOOLEAN :
                      IF ShouldPublish(elapsed, t.i, t.total_media) THEN
                          /\ progress_bar' = [progress_bar EXCEPT !.value = t.i + 1]
                          /\ thr' = [thr EXCEPT ![w] =
                                        NextIteration([t EXCEPT !.copied = t.copied + 1,
                                                                !.elapsed = elapsed,
                                                                !.published = t.i + 1])]
                      ELSE
                          /\ UNCHANGED progress_bar
                          /\ thr' = [thr EXCEPT ![w] =
                                        NextIteration([t EXCEPT !.copied = t.copied + 1,
                                                                !.elapsed = elapsed])]
    /\ UNCHANGED <<is_running, buttons, status_var, backup_thread, gui,
                   after_queue, nthreads, dest_dirs, probe, config>>

\* the number the completion message reports as copied
SummaryCount(t) == t.total_media

\* the final progress update and the "Backup Complete" message
Summary(w) ==
    /\ thr[w].pc = "summary"
    /\ progress_bar' = [progress_bar EXCEPT !.value = thr[w].total_media]
    /\ thr' = [thr EXCEPT ![w].note = [kind |-> "complete", count |-> SummaryCount(thr[w])],
                          ![w].pc = "finally"]
    /\ UNCHANGED <<is_running, buttons, status_var, backup_thread, gui,
                   after_queue, nthreads, filesystem, probe, config>>

\* the finally clause of run_backup
Finally(w) ==
    /\ thr[w].pc = "finally"
    /\ is_running' = FALSE
    /\ after_queue' = after_queue + 1
    /\ thr' = [thr EXCEPT ![w].elapsed = FALSE,
                          ![w].published = 0,
                          ![w].pc = "done"]
    /\ UNCHANGED <<buttons, status_var, progress_bar, backup_thread, gui,
                   nthreads, filesystem, probe, config>>

Worker(w) ==
    \/ WalkStep(w)
    \/ Prepare(w)
    \/ ResolveAndPlan(w)
    \/ CopyFile(w)
    \/ Summary(w)
    \/ Finally(w)

Next ==
    \/ StartBackup
    \/ DismissError
    \/ ConfirmBackup
    \/ CancelBackup
    \/ ResetGui
    \/ \E w \in Threads : Worker(w)

Spec == Init /\ [][Next]_vars

-----------------------------------------------------------------------------
(* safe_copy and get_media_date called one at a time, on chosen inputs *)

Name_A_JPG == <<"A",".","J","P","G">>
Name_a_2_jpg == <<"a","_","2",".","j","p","g">>

ProbeFolder == <<"D", "2024", "03_March">>
ProbePath(name) == [dir |-> ProbeFolder, name |-> name]
OldFile == [dir |-> <<"old">>, name |-> Name_a_jpg]

\* the names that may lie in the folder before the first copy
ProbeOldNames == {Name_a_jpg, Name_a_1_jpg, Name_a_2_jpg, Name_dot_jpg, Name_B_MP4}

\* the names of the source files copied
ProbeCopyNames == {Name_a_jpg, Name_a_1_jpg, Name_dot_jpg}

\* a time stamp in the year 10001, which datetime cannot represent
Mtime_far == [kind |-> "ok", t |-> (10001 - 1970) * 12]

ProbeStats ==
    [opens : BOOLEAN,
     exif : {ExifAbsent,
             [kind |-> "corrupt", text |-> NoText],
             [kind |-> "no_datetime", text |-> NoText],
             [kind |-> "undecodable", text |-> NoText],
             [kind |-> "text", text |-> GoodDateTime],
             [kind |-> "text", text |-> DashedDateTime],
             [kind |-> "text", text |-> Month13DateTime]},
     mtime : {[kind |-> "unreadable", t |-> 0], Mtime_2023_12, Mtime_far},
     readable : {TRUE}]

ProbeDateNames == {Name_a_jpg, Name_A_JPG, Name_B_MP4}

FnInit ==
    /\ InitGui
    /\ InitConfig
    /\ \E old \in SUBSET ProbeOldNames :
        /\ dest_files = [p \in {ProbePath(n) : n \in old} |-> OldFile]
        /\ probe = [NoProbe EXCEPT !.initial = {ProbePath(n) : n \in old}]

\* safe_copy(src, dst), whole, with no other thread running
SafeCopyCall ==
    /\ probe.op # "get_media_date"
    /\ Len(probe.asked) < MaxCopies
    /\ \E name \in ProbeCopyNames :
        LET src == [dir |-> <<"S">>, name |-> name]
            dst == ProbePath(name)
            new_dst == safe_copy_target(DOMAIN dest_files, dst)
        IN  /\ dest_files' = (new_dst :> src) @@ dest_files
            /\ probe' = [probe EXCEPT !.op = "safe_copy", !.input = dst,
                                      !.before = DOMAIN dest_files,
                                      !.result = new_dst,
                                      !.asked = Append(probe.asked, name),
                                      !.returned = Append(probe.returned, new_dst.name)]
    /\ UNCHANGED <<is_running, buttons, status_var, progress_bar, backup_thread,
                   gui, after_queue, nthreads, thr, dest_dirs, config>>

\* get_media_date(file_path) and the folder copy_media plans for its result
ResolveCall ==
    /\ probe.op # "safe_copy"
    /\ probe.initial = {}
    /\ \E name \in ProbeDateNames, st \in ProbeStats :
        LET file_path == [dir |-> <<"S">>, name |-> name]
            media_date == get_media_date(file_path, st)
        IN  \E folder_path \in FolderPaths("D", media_date) :
                probe' = [probe EXCEPT !.op = "get_media_date", !.input = file_path,
                                       !.st = st, !.date = media_date,
                                       !.folder = folder_path]
    /\ UNCHANGED <<is_running, buttons, status_var, progress_bar, backup_thread,
                   gui, after_queue, nthreads, thr, filesystem, config>>

\* the DateTime texts an image can carry: the year 999 is a valid date
AncientDateTime == <<"0","9","9","9",":","0","3",":","1","5"," ","1","0",":","3","0",":","0","0">>
ProbeDateTimes == {GoodDateTime, AncientDateTime, Month13DateTime}

\* lines 288-298 of copy_media for an image whose DateTime tag can be read:
\* its date and the folder planned for it
PlanFolderCall ==
    /\ probe.op # "safe_copy"
    /\ probe.initial = {}
    /\ \E text \in ProbeDateTimes,
          mtime \in {[kind |-> "unreadable", t |-> 0], Mtime_2023_12} :
        LET file_path == [dir |-> <<"S">>, name |-> Name_a_jpg]
            st == [opens |-> TRUE, exif |-> [kind |-> "text", text |-> text],
                   mtime |-> mtime, readable |-> TRUE]
            media_date == get_media_date(file_path, st)
        IN  \E folder_path \in FolderPaths("D", media_date) :
                probe' = [probe EXCEPT !.op = "plan_folder", !.input = file_path,
                                       !.st = st, !.date = media_date,
                                       !.folder = folder_path]
    /\ UNCHANGED <<is_running, buttons, status_var, progress_bar, backup_thread,
                   gui, after_queue, nthreads, thr, filesystem, config>>

FnNext == SafeCopyCall \/ ResolveCall \/ PlanFolderCall

FnSpec == FnInit /\ [][FnNext]_vars

-----------------------------------------------------------------------------
(* load_config, run at each construction of the program, on chosen files *)

CfgInit ==
    /\ InitGui
    /\ dest_files = << >>
    /\ probe = NoProbe
    /\ config_file \in ConfigFiles
    /\ loaded = NoLoad

\* __init__: self.media_extensions = self.load_config()
LoadConfig ==
    /\ loaded.calls < MaxLoads
    /\ config_file' = load_config(config_file).file
    /\ loaded' = [NoLoad EXCEPT !.calls = loaded.calls + 1,
                                !.before = config_file,
                                !.result = load_config(config_file).result]
    /\ UNCHANGED <<is_running, buttons, status_var, progress_bar, backup_thread,
                   gui, after_queue, nthreads, thr, filesystem, probe>>

\* count_media_files(source) with the extensions loaded
CountCall ==
    /\ loaded.calls > 0
    /\ loaded.source = ""
    /\ \E source \in {"S", "T", "E"} :
        loaded' = [loaded EXCEPT !.source = source,
                                 !.media_counts =
                                     count_media_files_for(Suffixes(loaded.result), source)]
    /\ UNCHANGED <<is_running, buttons, status_var, progress_bar, backup_thread,
                   gui, after_queue, nthreads, thr, filesystem, probe, config_file>>

CfgNext == LoadConfig \/ CountCall

CfgSpec == CfgInit /\ [][CfgNext]_vars

-----------------------------------------------------------------------------
(* Claims *)

\* C1: once cancel_backup has cancelled a job whose files are enumerated, the
\* worker of that job, at the head of an iteration of the copy loop, stops:
\* it resolves, plans and copies no further file.
C1_CancelStopsTheJob ==
    [][\A w \in Threads :
          (thr[w].cancelled /\ thr[w].pc = "loop")
              => /\ thr'[w].pc # "copy"
                 /\ thr'[w].i = thr[w].i
                 /\ thr'[w].skipped = thr[w].skipped
                 /\ thr'[w].folder_cache = thr[w].folder_cache]_vars

\* C2: at most one worker thread is alive at any time.
C2_OneJobActive == Cardinality({w \in Threads : Alive(w)}) <= 1

\* C3: a file whose iteration raises is skipped and the loop goes on: inside
\* the loop the index is that of an enumerated file, only attempted files are
\* skipped, and a worker that entered the copy loop and left it has attempted
\* every enumerated file, each one either copied or skipped.
C3_ErrorsAbsorbed ==
    \A w \in Threads :
        LET t == thr[w] IN
        /\ t.skipped \subseteq 0..(t.i - 1)
        /\ t.pc \in {"loop", "copy"} => t.i < t.total_media
        /\ (t.pc \in {"summary", "finally", "done"} /\ t.folder_cache # {})
              => /\ t.i = t.total_media
                 /\ t.i = Len(t.media_to_copy)
                 /\ t.copied + Cardinality(t.skipped) = t.total_media
                 /\ t.note.kind # "error"

\* a worker ended after its first file failed and its second file was copied
C3_Witness ==
    \E w \in Threads :
        /\ thr[w].pc = "done"
        /\ thr[w].skipped = {0}
        /\ thr[w].copied = 1
        /\ thr[w].total_media = 2

\* C4: the number the completion message reports is the number of files the
\* job copied.
C4_SummaryCountsCopies ==
    \A w \in Threads :
        thr[w].note.kind = "complete" => thr[w].note.count = thr[w].copied

\* C5: shutil.copy2 in safe_copy writes to a path that does not exist, leaves
\* every existing file as it is, and adds exactly one file.
C5_NeverOverwrites ==
    [][\A w \in Threads :
          (thr[w].pc = "copy" /\ thr'[w].copied = thr[w].copied + 1)
              => /\ thr[w].new_dst \notin DOMAIN dest_files
                 /\ \A p \in DOMAIN dest_files :
                        p \in DOMAIN dest_files' /\ dest_files'[p] = dest_files[p]
                 /\ Cardinality(DOMAIN dest_files')
                        = Cardinality(DOMAIN dest_files) + 1]_vars

\* the name and the extension of the names copied, as the claim reads them:
\* a name that is only an extension has no extension
ClaimStem(name) ==
    IF name = Name_a_jpg THEN <<"a">>
    ELSE IF name = Name_a_1_jpg THEN <<"a","_","1">>
    ELSE name
ClaimExt(name) ==
    IF name \in {Name_a_jpg, Name_a_1_jpg} THEN <<".","j","p","g">> ELSE <<>>

\* name.ext for j = 0, name_j.ext for j >= 1
Numbered(name, j) ==
    IF j = 0 THEN name
    ELSE ClaimStem(name) \o <<"_">> \o DecChars(j) \o ClaimExt(name)

\* C6: safe_copy returns name.ext if it is unused, otherwise name_j.ext for the
\* smallest j >= 1 such that name_j.ext does not exist; and copying the same
\* name k+1 times in a row into a folder that holds none of name.ext,
\* name_1.ext, ..., name_k.ext yields exactly these names, in this order.
C6_CollisionNaming ==
    /\ probe.op = "safe_copy" =>
          \E j \in 0..Cardinality(probe.before) :
              /\ probe.result = ProbePath(Numbered(probe.input.name, j))
              /\ probe.result \notin probe.before
              /\ \A k \in 0..(j - 1) :
                     ProbePath(Numbered(probe.input.name, k)) \in probe.before
    /\ \A n \in ProbeCopyNames :
          (/\ probe.asked = [k \in 1..Len(probe.asked) |-> n]
           /\ \A k \in 0..(Len(probe.asked) - 1) :
                  ProbePath(Numbered(n, k)) \notin probe.initial)
              => probe.returned = [k \in 1..Len(probe.asked) |-> Numbered(n, k - 1)]

\* a.jpg copied three times into an empty folder: a.jpg, a_1.jpg, a_2.jpg
C6_Witness ==
    /\ probe.initial = {}
    /\ probe.asked = <<Name_a_jpg, Name_a_jpg, Name_a_jpg>>
    /\ probe.returned = <<Name_a_jpg, Name_a_1_jpg, Name_a_2_jpg>>
    /\ DOMAIN dest_files =
          {ProbePath(Name_a_jpg), ProbePath(Name_a_1_jpg), ProbePath(Name_a_2_jpg)}

\* C7: get_media_date returns the metadata date of an image whose DateTime tag
\* can be read and parsed, otherwise the modification time if it can be read
\* as a date, otherwise None; it never raises; and a file goes to Unknown_Date
\* exactly when neither date exists.
C7_ThreeTierFallback ==
    probe.op = "get_media_date" =>
        LET image == probe.input.name \in {Name_a_jpg, Name_A_JPG}
            metadata == /\ image
                        /\ probe.st.opens
                        /\ probe.st.exif = [kind |-> "text", text |-> GoodDateTime]
            mtime == probe.st.mtime = Mtime_2023_12
        IN  /\ probe.date.kind \in {"date", "None"}
            /\ metadata => probe.date = DateOf(2024, 3)
            /\ (~metadata /\ mtime) => probe.date = DateOf(2023, 12)
            /\ (~metadata /\ ~mtime) => probe.date = NoDate
            /\ probe.folder = <<"D", "Unknown_Date">> <=> (~metadata /\ ~mtime)
            /\ metadata => probe.folder = <<"D", "2024", "03_March">>
            /\ (~metadata /\ mtime) => probe.folder = <<"D", "2023", "12_December">>

\* an image whose metadata cannot be loaded gets its modification time
C7_Witness ==
    /\ probe.op = "get_media_date"
    /\ probe.input.name = Name_A_JPG
    /\ probe.st.opens
    /\ probe.st.exif.kind = "corrupt"
    /\ probe.st.mtime = Mtime_2023_12
    /\ probe.date = DateOf(2023, 12)
    /\ probe.folder = <<"D", "2023", "12_December">>

\* C8: a worker shows its message (the summary, "No media files found!" or
\* the error) before it reaches the finally clause of run_backup, and only
\* there; reset_gui is scheduled only by workers that have ended.
C8_TerminalNotification ==
    /\ \A w \in Threads :
          thr[w].pc \in {"finally", "done"} <=> thr[w].note.kind # "none"
    /\ after_queue <= Cardinality({w \in Threads : thr[w].pc = "done"})

\* two workers have ended, one with the error message, the other after it was
\* cancelled, with the summary
C8_Witness ==
    \E w, v \in Threads :
        /\ thr[w].pc = "done" /\ thr[w].note.kind = "error"
        /\ thr[v].pc = "done" /\ thr[v].note.kind = "complete" /\ thr[v].cancelled

\* C9: start_backup with a missing source or a destination that cannot be
\* created opens the error dialog and changes nothing else, nor does closing
\* the dialog; the confirmation dialog opens, and a worker runs, only for a
\* source that exists and a destination that was created.
C9_FatalPreStart ==
    /\ [](/\ gui.pc = "confirm" =>
                /\ gui.source \in {"S", "T", "E"}
                /\ gui.destination \in {"D", "Q"}
                /\ <<gui.destination>> \in dest_dirs
          /\ \A w \in Threads :
                thr[w].pc # "unborn" =>
                    /\ thr[w].source \in {"S", "T", "E"}
                    /\ thr[w].destination \in {"D", "Q"}
                    /\ <<thr[w].destination>> \in dest_dirs)
    /\ [][(gui.pc = "error" \/ gui'.pc = "error")
             => \/ UNCHANGED gui
                \/ /\ gui.pc = "idle" \/ gui'.pc = "idle"
                   /\ UNCHANGED <<is_running, buttons, backup_thread, nthreads,
                                  thr, filesystem, after_queue>>]_vars

\* the error dialog for a destination that cannot be created, no job started
C9_Witness ==
    /\ gui.pc = "error"
    /\ gui.dialog = "Cannot create destination folder"
    /\ ~is_running
    /\ nthreads = 0
    /\ start_button = "normal"
    /\ DOMAIN dest_files = {}

\* C10: a worker is created, is_running is set and the start button disabled
\* only by the step that answers yes to the confirmation dialog, which shows
\* the counts of the source; answering no changes nothing but the dialog;
\* every worker was created by a yes, and files are copied only by workers.
C10_ConfirmedBeforeCopy ==
    /\ [](/\ \A w \in Threads : thr[w].pc # "unborn" => thr[w].answer
          /\ DOMAIN dest_files # {} => nthreads > 0
          /\ gui.pc = "confirm" => gui.media_counts = count_media_files(gui.source))
    /\ [][/\ (\/ nthreads' # nthreads
              \/ is_running' /\ ~is_running
              \/ start_button' = "disabled" /\ start_button # "disabled")
             => /\ gui.pc = "confirm"
                /\ nthreads' = nthreads + 1
                /\ thr'[nthreads'].answer
                /\ thr'[nthreads'].pc = "walk"
          /\ (gui.pc = "confirm" /\ gui'.pc # "confirm" /\ nthreads' = nthreads)
             => UNCHANGED <<is_running, buttons, backup_thread, thr, filesystem>>]_vars

\* a job started by a yes has copied a file
C10_Witness ==
    /\ nthreads = 1
    /\ thr[1].answer
    /\ thr[1].copied = 1
    /\ DOMAIN dest_files # {}

\* C11: the copy loop writes the progress of file i only when half a second
\* has passed since last_update or i is the last enumerated file, and then it
\* writes i + 1; a step that copies a file without this leaves the progress bar
\* alone; and the completion summary is shown only by a step that has written
\* total_media to the progress bar, after every file was attempted.
C11_ProgressThrottled ==
    [][\A w \in Threads :
          /\ (thr[w].pc = "copy" /\ thr'[w] # thr[w])
                => IF thr'[w].published = thr[w].i + 1
                   THEN /\ thr'[w].elapsed \/ thr[w].i = thr[w].total_media - 1
                        /\ progress_bar'.value = thr[w].i + 1
                   ELSE UNCHANGED progress_bar
          /\ (thr'[w].note.kind = "complete" /\ thr[w].note.kind # "complete")
                => /\ thr[w].i = thr[w].total_media
                   /\ progress_bar'.value = thr[w].total_media]_vars

\* a job of three files shows its summary at 3 of 3: the first file was
\* reported, the second was copied within half a second and not reported, the
\* last was skipped by an error
C11_Witness ==
    \E w \in Threads :
        /\ thr[w].pc = "finally"
        /\ thr[w].note.kind = "complete"
        /\ thr[w].total_media = 3
        /\ thr[w].skipped = {2}
        /\ thr[w].copied = 2
        /\ thr[w].published = 1
        /\ ~thr[w].elapsed
        /\ progress_bar.value = 3

\* the counts the claim assigns to the source trees: S holds B.MP4, notes.txt
\* and a.jpg; T holds c.png, d.mov and e.gif; E holds notes.txt
ClaimCounts(source) ==
    IF source = "S" THEN [total |-> 2, images |-> 1, videos |-> 1]
    ELSE IF source = "T" THEN [total |-> 3, images |-> 2, videos |-> 1]
    ELSE [total |-> 0, images |-> 0, videos |-> 0]

\* C12: the counts shown for confirmation are those of the files whose
\* lower-cased name ends with a media extension, split into images and the
\* rest, with total = images + videos; copy_media enumerates only such files,
\* at most total of them, and a .txt file is neither enumerated nor copied.
C12_PreflightCounts ==
    /\ gui.pc = "confirm" =>
          /\ gui.media_counts = ClaimCounts(gui.source)
          /\ gui.media_counts.total = gui.media_counts.images + gui.media_counts.videos
    /\ \A w \in Threads :
          /\ Len(thr[w].media_to_copy) <= ClaimCounts(thr[w].source).total
          /\ \A k \in 1..Len(thr[w].media_to_copy) :
                 /\ thr[w].media_to_copy[k].name # Name_notes_txt
                 /\ IsMedia(thr[w].media_to_copy[k].name)
          /\ (thr[w].pc \notin {"unborn", "walk"} /\ thr[w].walk_idx > Len(Walk(thr[w].source)))
                => Len(thr[w].media_to_copy) = ClaimCounts(thr[w].source).total
    /\ \A p \in DOMAIN dest_files : dest_files[p].name # Name_notes_txt

\* the confirmation of a second job shows 3 files, 2 images and 1 video, after
\* a first job enumerated the two media files of S and copied one
C12_Witness ==
    /\ gui.pc = "confirm"
    /\ gui.source = "T"
    /\ gui.media_counts = [total |-> 3, images |-> 2, videos |-> 1]
    /\ thr[1].source = "S"
    /\ Len(thr[1].media_to_copy) = 2
    /\ thr[1].copied = 1

\* C13: a job whose enumeration is empty shows "No media files found!" and
\* ends: it never enters the copy loop, creates no folder, not even
\* Unknown_Date, copies no file and leaves the progress bar alone.
C13_EmptyInput ==
    /\ [](\A w \in Threads :
             /\ thr[w].pc \in {"loop", "copy", "summary"} => thr[w].media_to_copy # << >>
             /\ (thr[w].pc \in {"finally", "done"} /\ thr[w].media_to_copy = << >>)
                   => /\ thr[w].note.kind = "empty"
                      /\ thr[w].copied = 0
                      /\ thr[w].made = << >>
                      /\ thr[w].folder_cache = {}
                      /\ thr[w].skipped = {})
    /\ [][\A w \in Threads :
             (thr[w].media_to_copy = << >> /\ thr[w].pc \in {"prep", "finally"}
                  /\ thr'[w].pc # thr[w].pc)
                 => /\ thr'[w].pc \in {"finally", "done"}
                    /\ UNCHANGED <<filesystem, progress_bar>>]_vars

\* a job on the tree without media files has ended with the message; the
\* destination holds nothing but its root
C13_Witness ==
    \E w \in Threads :
        /\ thr[w].pc = "done"
        /\ thr[w].source = "E"
        /\ thr[w].destination = "D"
        /\ thr[w].note.kind = "empty"
        /\ dest_dirs = {<<"Q">>, <<"D">>}
        /\ DOMAIN dest_files = {}

\* the folder the claim assigns to a resolved date: the year in four digits,
\* the month in two digits and by name
ClaimFolder(media_date) ==
    IF media_date = NoDate THEN <<"D", "Unknown_Date">>
    ELSE IF media_date = DateOf(2024, 3) THEN <<"D", "2024", "03_March">>
    ELSE IF media_date = DateOf(2023, 12) THEN <<"D", "2023", "12_December">>
    ELSE IF media_date = DateOf(999, 3) THEN <<"D", "0999", "03_March">>
    ELSE << >>

\* C14: the folder planned for a file is <dest>/<4-digit year>/<2-digit
\* month>_<month name> of its resolved date, Unknown_Date exactly when the date
\* is unknown, and it depends on nothing but the year and the month.
C14_DestinationLayout ==
    probe.op = "plan_folder" =>
        /\ probe.folder = ClaimFolder(probe.date)
        /\ probe.folder = <<"D", "Unknown_Date">> <=> probe.date = NoDate

\* C15: load_config on an absent or malformed configuration file returns the
\* 15 default extensions and, where the file can be written, leaves the
\* defaults in it, so that the file exists for the following load.
C15_DefaultsPersisted ==
    (/\ loaded.calls > 0
     /\ loaded.before.kind \in {"absent", "unreadable", "garbage", "not_object",
                                "not_iterable"})
        => /\ loaded.result = default_extensions
           /\ Len(loaded.result) = 15
           /\ loaded.before.writable => config_file = ConfigDefault

\* C16: a job that copies a file iterates over the complete enumeration of
\* its source tree: every matching file of every directory, in walk order.
C16_ListMaterialized ==
    \A w \in Threads :
        (thr[w].pc \in {"loop", "copy", "summary", "finally", "done"}
             /\ thr[w].copied > 0)
            => /\ Len(thr[w].media_to_copy) = ClaimCounts(thr[w].source).total
               /\ thr[w].total_media = ClaimCounts(thr[w].source).total

\* C17: the start button is enabled only while no worker is on its way to a
\* terminal state, so a job is reset to Idle only after its worker has ended.
C17_ResetAfterTerminal ==
    start_button = "normal" =>
        \A w \in Threads : thr[w].pc \notin {"walk", "prep", "loop", "copy", "summary"}

\* C18: within a job os.makedirs succeeds at most once per folder, for exactly
\* the folders of the cache; the cache is empty until the enumeration is over
\* and holds Unknown_Date, created first, from then on; every cached folder
\* exists; and safe_copy writes only into a cached folder.
C18_FolderCache ==
    \A w \in Threads :
        LET t == thr[w] IN
        /\ Cardinality({t.made[k] : k \in 1..Len(t.made)}) = Len(t.made)
        /\ {t.made[k] : k \in 1..Len(t.made)} = t.folder_cache
        /\ t.pc \in {"unborn", "walk", "prep"} => t.folder_cache = {}
        /\ t.pc \in {"loop", "copy", "summary"}
              => /\ t.made[1] = <<t.destination, "Unknown_Date">>
                 /\ <<t.destination, "Unknown_Date">> \in t.folder_cache
        /\ t.folder_cache \subseteq dest_dirs
        /\ t.pc = "copy" => t.new_dst.dir \in t.folder_cache

\* a job has planned three files, two of them for the same month and one for
\* Unknown_Date, with two successful os.makedirs calls
C18_Witness ==
    \E w \in Threads :
        /\ thr[w].pc = "summary"
        /\ thr[w].total_media = 3
        /\ thr[w].made = << <<"D", "Unknown_Date">>, <<"D", "2023", "12_December">> >>
        /\ thr[w].copied = 2
        /\ [dir |-> <<"D", "Unknown_Date">>, name |-> Name_d_mov] \in DOMAIN dest_files

\* a step of worker w: its position in run_backup and copy_media changes
WorkerStep(w) ==
    <<thr'[w].pc, thr'[w].walk_idx, thr'[w].i>> # <<thr[w].pc, thr[w].walk_idx, thr[w].i>>

\* C19: is_running and the progress values are written only by steps of the
\* worker of the current job (self.backup_thread), never by a handler of the
\* GUI thread and never by the worker of another job.
C19_SingleWriter ==
    [][(is_running' # is_running \/ progress_bar' # progress_bar)
          => /\ backup_thread # 0
             /\ backup_thread' = backup_thread
             /\ WorkerStep(backup_thread)]_vars

\* C20: while a worker is in its copy loop the progress value lies between 0
\* and the progress bar's maximum, which is the number of files of that job,
\* and no step lowers the value; the loop index never passes the number of
\* files and advances one file at a time.
C20_ProgressMonotone ==
    /\ [](\A w \in Threads :
             thr[w].pc \in {"loop", "copy", "summary"}
                 => /\ progress_bar.maximum = thr[w].total_media
                    /\ progress_bar.value \in 0..progress_bar.maximum
                    /\ thr[w].i \in 0..thr[w].total_media)
    /\ [][/\ (\E w \in Threads : thr[w].pc \in {"loop", "copy", "summary"})
                => progress_bar'.value >= progress_bar.value
          /\ \A w \in Threads :
                thr[w].pc \in {"loop", "copy"} => thr'[w].i \in {thr[w].i, thr[w].i + 1}]_vars

====
